---- MODULE Spec2Model ----
(***************************************************************************)
(* fast_backups.py: maxThroughput builds a residual network (every data    *)
(* centre V split into V, Vin = V+N and Vout = V+2N, one super target 3N)  *)
(* and Graph.fordFulkerson pushes flow along breadth-first augmenting      *)
(* paths until hasAugmentingPath fails.                                    *)
(*                                                                         *)
(* Ids are 0-based as in the source; Python lists are TLA+ sequences, so   *)
(* list element i is sequence element i+1.  A Vertex is a record           *)
(* [id, edges, discovered, visited, previous]; previous holds the id of    *)
(* the predecessor vertex, or None.  An Edge is a record [u, v, w].        *)
(***************************************************************************)
EXTENDS Integers, Sequences, FiniteSets, TLC

VARIABLES
    connections,     \* argument of maxThroughput: sequence of <<a, b, t>>
    maxIn,           \* argument of maxThroughput
    maxOut,          \* argument of maxThroughput
    origin,          \* argument of maxThroughput
    targets,         \* argument of maxThroughput
    vertices,        \* Graph.vertices
    source,          \* argument of fordFulkerson
    sink,            \* argument of fordFulkerson
    flow,            \* local of fordFulkerson
    path,            \* local of fordFulkerson
    smallest_value,  \* local of fordFulkerson
    pc               \* position in fordFulkerson

vars == <<connections, maxIn, maxOut, origin, targets, vertices, source, sink,
          flow, path, smallest_value, pc>>

inputs == <<connections, maxIn, maxOut, origin, targets>>

(***************************************************************************)
(* Bounds of the model.                                                    *)
(***************************************************************************)
MaxN == 2            \* data centres: N ranges over 1..MaxN
MaxCap == 2          \* every capacity ranges over 0..MaxCap
MaxConn == 2         \* len(connections) ranges over 0..MaxConn
MaxTargets == 2      \* len(targets) ranges over 1..MaxTargets
EngineV == 3         \* vertices of a graph handed to the engine directly
EngineE == 3         \* edges of a graph handed to the engine directly

None == -1

Max(a, b) == IF a > b THEN a ELSE b

\* The running flow of a call that never returns is followed this far, in
\* either direction.  No returning call gets further: on maxThroughput's
\* graphs the flow is at most maxOut[origin] <= MaxCap, on the engine's graphs
\* (unit and zero capacities) at most EngineE.
FlowBound == Max(MaxCap, EngineE)

Centres(n) == 0 .. (n - 1)

Caps == 0 .. MaxCap

SeqsUpTo(S, lo, hi) == UNION {[1..m -> S] : m \in lo..hi}

(***************************************************************************)
(* maxThroughput, lines 69-123: the preprocessed connection list.          *)
(***************************************************************************)
Edge(u, v, w) == [u |-> u, v |-> v, w |-> w]

\* every forward edge is appended together with its backward edge (v, u, 0)
WithBackward(forward) ==
    [k \in 1..(2 * Len(forward)) |->
        LET e == forward[(k + 1) \div 2]
        IN  IF k % 2 = 1 THEN e ELSE Edge(e.v, e.u, 0)]

\* lines 75-84
VinEdges(mi) ==
    LET total_centre == Len(mi)
    IN  [k \in 1..Len(mi) |-> Edge((k - 1) + total_centre, k - 1, mi[k])]

\* lines 88-97
VoutEdges(mi, mo) ==
    LET total_centre == Len(mi)
    IN  [k \in 1..Len(mo) |-> Edge(k - 1, (k - 1) + total_centre * 2, mo[k])]

\* lines 99-110
ChannelEdges(cs, mi) ==
    LET total_centre == Len(mi)
    IN  [k \in 1..Len(cs) |->
            Edge(cs[k][1] + total_centre * 2, cs[k][2] + total_centre, cs[k][3])]

\* a slip in lines 115-117: the super target fed from the target's Vin
TargetEdgesFromVin(ts, mi) ==
    LET total_centre == Len(mi)
    IN  [k \in 1..Len(ts) |->
            Edge(ts[k] + total_centre, total_centre * 3, mi[ts[k] + 1])]

\* lines 114-123
TargetEdges(ts, mi) ==
    LET total_centre == Len(mi)
    IN  [k \in 1..Len(ts) |-> Edge(ts[k], total_centre * 3, mi[ts[k] + 1])]

Preprocess(cs, mi, mo, ts) ==
    WithBackward(VinEdges(mi)) \o WithBackward(VoutEdges(mi, mo))
        \o WithBackward(ChannelEdges(cs, mi)) \o WithBackward(TargetEdges(ts, mi))

(***************************************************************************)
(* Graph.__init__, Vertex.__init__, Vertex.add_edge.                       *)
(***************************************************************************)
Vertex(id) ==
    [id |-> id, edges |-> <<>>, discovered |-> FALSE, visited |-> FALSE,
     previous |-> None]

\* lines 178-184: every connection is appended to its departure's edge list
RECURSIVE AddEdges(_, _, _)
AddEdges(vs, conns, k) ==
    IF k > Len(conns) THEN vs
    ELSE LET c == conns[k]
         IN  AddEdges([vs EXCEPT ![c.u].edges = Append(@, c)], conns, k + 1)

Graph(conns, total_vertices) ==
    AddEdges([i \in 0..(total_vertices - 1) |-> Vertex(i)], conns, 1)

(***************************************************************************)
(* Graph.hasAugmentingPath, lines 207-236.                                 *)
(***************************************************************************)
\* slips in line 231: an edge of capacity 1 left unused, an edge of capacity 0
\* used
TraversableAboveOne(v, edge) == v.discovered = FALSE /\ edge.w > 1

TraversableAtZero(v, edge) == v.discovered = FALSE /\ edge.w >= 0

\* a slip in line 231: the vertex tested for visited instead of discovered
TraversableUnvisited(v, edge) == v.visited = FALSE /\ edge.w > 0

\* line 231
Traversable(v, edge) == v.discovered = FALSE /\ edge.w > 0

\* lines 227-234: the edges of u from the k-th on
RECURSIVE ScanEdges(_, _, _, _)
ScanEdges(vs, queue, u, k) ==
    IF k > Len(vs[u].edges) THEN [vertices |-> vs, queue |-> queue]
    ELSE LET edge == vs[u].edges[k]
             v == edge.v
         IN  IF Traversable(vs[v], edge)
             THEN ScanEdges([vs EXCEPT ![v].discovered = TRUE, ![v].previous = u],
                            Append(queue, v), u, k + 1)
             ELSE ScanEdges(vs, queue, u, k + 1)

\* lines 213-236
RECURSIVE BfsLoop(_, _, _)
BfsLoop(vs, queue, t) ==
    IF Len(queue) = 0 THEN [vertices |-> vs, found |-> FALSE]
    ELSE LET u == Head(queue)
             vs1 == [vs EXCEPT ![u].visited = TRUE]
         IN  IF u = t THEN [vertices |-> vs1, found |-> TRUE]
             ELSE LET s == ScanEdges(vs1, Tail(queue), u, 1)
                  IN  BfsLoop(s.vertices, s.queue, t)

hasAugmentingPath(vs, s, t) == BfsLoop(vs, <<s>>, t)

\* lines 211 and 234: every vertex the search puts into its queue, in the order
\* it puts them
RECURSIVE EnqueuedBy(_, _, _, _)
EnqueuedBy(vs, queue, t, log) ==
    IF Len(queue) = 0 THEN log
    ELSE LET u == Head(queue)
             vs1 == [vs EXCEPT ![u].visited = TRUE]
         IN  IF u = t THEN log
             ELSE LET s == ScanEdges(vs1, Tail(queue), u, 1)
                  IN  EnqueuedBy(s.vertices, s.queue, t,
                                 log \o SubSeq(s.queue, Len(queue), Len(s.queue)))

Enqueued(vs, s, t) == EnqueuedBy(vs, <<s>>, t, <<s>>)

(***************************************************************************)
(* Graph.getAugmentingPath, lines 254-282.                                 *)
(***************************************************************************)
\* a slip in line 273: the comparison turned round
Larger(smallest, w) ==
    IF smallest = -1 THEN w
    ELSE IF w > smallest THEN w ELSE smallest

\* lines 270-274
Smaller(smallest, w) ==
    IF smallest = -1 THEN w
    ELSE IF w < smallest THEN w ELSE smallest

\* lines 266-274: every edge of `current` that arrives at `previous`
RECURSIVE ResidualScan(_, _, _, _)
ResidualScan(es, k, previous, smallest) ==
    IF k > Len(es) THEN smallest
    ELSE IF es[k].v = previous
         THEN ResidualScan(es, k + 1, previous, Smaller(smallest, es[k].w))
         ELSE ResidualScan(es, k + 1, previous, smallest)

\* lines 260-276
RECURSIVE Backtrack(_, _, _, _, _)
Backtrack(vs, s, current, p, smallest) ==
    IF current = s THEN [path |-> Append(p, s), smallest_value |-> smallest]
    ELSE LET previous == current
             cur == vs[current].previous
         IN  Backtrack(vs, s, cur, Append(p, current),
                       ResidualScan(vs[cur].edges, 1, previous, smallest))

\* lines 279-280
Reverse(p) == [k \in 1..Len(p) |-> p[Len(p) - k + 1]]

getAugmentingPath(vs, s, t) ==
    LET r == Backtrack(vs, s, t, <<>>, -1)
    IN  [path |-> Reverse(r.path), smallest_value |-> r.smallest_value]

(***************************************************************************)
(* Graph.fordFulkerson, lines 309-344.                                     *)
(***************************************************************************)
\* the first edge of es that arrives at v (the loops of lines 326-329 and
\* 332-335 stop at it); 0 when there is none
FirstTo(es, v) ==
    IF \E k \in 1..Len(es) : es[k].v = v
    THEN CHOOSE k \in 1..Len(es) :
            es[k].v = v /\ \A j \in 1..(k - 1) : es[j].v # v
    ELSE 0

\* a slip in lines 326-335: the new capacity put on an edge of its own
AddToFirstAppending(vs, u, v, amount) ==
    LET k == FirstTo(vs[u].edges, v)
    IN  IF k = 0 THEN vs
        ELSE [vs EXCEPT ![u].edges = Append(@, Edge(u, v, @[k].w + amount))]

\* a slip in lines 328 and 334: -= and += exchanged
AddToFirstExchanged(vs, u, v, amount) ==
    LET k == FirstTo(vs[u].edges, v)
    IN  IF k = 0 THEN vs ELSE [vs EXCEPT ![u].edges[k].w = @ - amount]

\* a slip in lines 332-335: the backward edge left as it is
AddToFirstForwardOnly(vs, u, v, amount) ==
    LET k == FirstTo(vs[u].edges, v)
    IN  IF k = 0 \/ amount > 0 THEN vs
        ELSE [vs EXCEPT ![u].edges[k].w = @ + amount]

\* lines 326-329 (amount = -smallest_value) and 332-335 (amount = smallest_value)
AddToFirst(vs, u, v, amount) ==
    LET k == FirstTo(vs[u].edges, v)
    IN  IF k = 0 THEN vs ELSE [vs EXCEPT ![u].edges[k].w = @ + amount]

\* a slip in line 321: the stop of the loop of line 279, range(1, len(path)//2)
UpdateRangeToHalf(p) == 1 .. ((Len(p) \div 2) - 1)

\* line 321: range(1, len(path)-1), as positions of the 0-based list
UpdateRange(p) == 1 .. (Len(p) - 2)

\* lines 321-335
RECURSIVE UpdateResidual(_, _, _, _)
UpdateResidual(vs, p, b, i) ==
    IF i \notin UpdateRange(p) THEN vs
    ELSE LET v == p[i + 1]
             u == vs[v].previous
             vs1 == AddToFirst(vs, u, v, -b)
             vs2 == AddToFirst(vs1, v, u, b)
         IN  UpdateResidual(vs2, p, b, i + 1)

\* a slip in lines 338-341: previous left as the search set it
ResetVerticesKeepPrevious(vs) ==
    [i \in DOMAIN vs |-> [vs[i] EXCEPT !.discovered = FALSE, !.visited = FALSE]]

\* lines 338-341
ResetVertices(vs) ==
    [i \in DOMAIN vs |->
        [vs[i] EXCEPT !.discovered = FALSE, !.visited = FALSE, !.previous = None]]

\* lines 315-341: one pass of the loop body, on the graph the search left
LoopBody(vs, s, t) ==
    LET r == getAugmentingPath(vs, s, t)
    IN  [path |-> r.path,
         smallest_value |-> r.smallest_value,
         vertices |-> ResetVertices(
                        UpdateResidual(vs, r.path, r.smallest_value, 1))]

\* lines 309-344 as a function of the graph: <<flow>> when the call returns
\* flow, <<>> when it never returns.  The search reads nothing but the graph,
\* so a pass of the loop that leaves the graph as it found it is repeated
\* for ever.
RECURSIVE fordFulkerson(_, _, _, _)
fordFulkerson(vs, s, t, f) ==
    LET h == hasAugmentingPath(vs, s, t)
    IN  IF ~h.found THEN <<f>>
        ELSE LET b == LoopBody(h.vertices, s, t)
             IN  IF b.vertices = vs THEN <<>>
                 ELSE fordFulkerson(b.vertices, s, t, f + b.smallest_value)

\* lines 69-132
maxThroughput(cs, mi, mo, o, ts) ==
    fordFulkerson(Graph(Preprocess(cs, mi, mo, ts), Len(mi) * 3 + 1),
                  o, Len(mi) * 3, 0)

(***************************************************************************)
(* Initial states.                                                         *)
(***************************************************************************)
\* maxThroughput, lines 127-132: the graph is built and fordFulkerson(origin,
\* total_centre*3) is entered
InitOf(cs, mi, mo, o, ts) ==
    /\ connections = cs
    /\ maxIn = mi
    /\ maxOut = mo
    /\ origin = o
    /\ targets = ts
    /\ vertices = Graph(Preprocess(cs, mi, mo, ts), Len(mi) * 3 + 1)
    /\ source = o
    /\ sink = Len(mi) * 3
    /\ flow = 0
    /\ path = <<>>
    /\ smallest_value = 0
    /\ pc = "while"

Init ==
    \E n \in 1..MaxN :
        \E mi \in [1..n -> Caps], mo \in [1..n -> Caps],
           cs \in SeqsUpTo(Centres(n) \X Centres(n) \X Caps, 0, MaxConn),
           o \in Centres(n),
           ts \in SeqsUpTo(Centres(n), 1, MaxTargets) :
            InitOf(cs, mi, mo, o, ts)

\* one centre more, with limits one lower, channels of a positive capacity
\* and a single target
InitWide ==
    LET n == MaxN + 1
        caps == 0..(MaxCap - 1)
    IN  \E mi \in [1..n -> caps], mo \in [1..n -> caps],
           cs \in SeqsUpTo(Centres(n) \X Centres(n) \X (caps \ {0}), 0, MaxConn),
           o \in Centres(n),
           ts \in SeqsUpTo(Centres(n), 1, 1) :
            InitOf(cs, mi, mo, o, ts)

\* MaxN centres whose limits are all MaxCap, so that only the channels and
\* the targets decide
InitUnlimited ==
    LET n == MaxN
    IN  \E cs \in SeqsUpTo(Centres(n) \X Centres(n) \X Caps, 0, MaxConn),
           o \in Centres(n),
           ts \in SeqsUpTo(Centres(n), 1, MaxTargets) :
            InitOf(cs, [i \in 1..n |-> MaxCap], [i \in 1..n |-> MaxCap], o, ts)

\* Graph(connections, total_vertices).fordFulkerson(source, sink) on a graph
\* of the caller's own
InitEngine ==
    \E es \in SeqsUpTo([u : Centres(EngineV), v : Centres(EngineV), w : 0..1],
                       0, EngineE),
       s \in Centres(EngineV), t \in Centres(EngineV) :
        /\ connections = <<>>
        /\ maxIn = <<>>
        /\ maxOut = <<>>
        /\ origin = s
        /\ targets = <<>>
        /\ vertices = Graph(es, EngineV)
        /\ source = s
        /\ sink = t
        /\ flow = 0
        /\ path = <<>>
        /\ smallest_value = 0
        /\ pc = "while"

(***************************************************************************)
(* Steps of fordFulkerson.                                                 *)
(***************************************************************************)
\* line 312: the loop condition
HasAugmentingPath ==
    /\ pc = "while"
    /\ LET r == hasAugmentingPath(vertices, source, sink)
       IN  /\ vertices' = r.vertices
           /\ pc' = IF r.found THEN "body" ELSE "return"
    /\ UNCHANGED <<inputs, source, sink, flow, path, smallest_value>>

\* lines 315-341: the loop body
Augment ==
    /\ pc = "body"
    /\ LET b == LoopBody(vertices, source, sink)
       IN  /\ flow + b.smallest_value \in (-FlowBound)..FlowBound
           /\ path' = b.path
           /\ smallest_value' = b.smallest_value
           /\ flow' = flow + b.smallest_value
           /\ vertices' = b.vertices
    /\ pc' = "while"
    /\ UNCHANGED <<inputs, source, sink>>

Next == HasAugmentingPath \/ Augment

Spec == Init /\ [][Next]_vars

SpecWide == InitWide /\ [][Next]_vars

SpecEngine == InitEngine /\ [][Next]_vars

\* fordFulkerson is one sequential call: until it returns it moves on, and
\* every step of it moves pc
MovesOn == pc # "return" /\ pc' \in {"while", "body", "return"} /\ pc' # pc

FairSpec == InitUnlimited /\ [][Next]_vars /\ WF_pc(MovesOn)

(***************************************************************************)
(* The transformed graph as the specification describes it, from the       *)
(* arguments alone: the arcs inGate(i)->in(i), in(i)->outGate(i),          *)
(* outGate(a)->inGate(b) per channel and in(t)->superSink per target.      *)
(***************************************************************************)
N == Len(maxIn)

inGate(i) == i + N

outGate(i) == i + 2 * N

superSink == 3 * N

Arc(kind, k, u, v, c) == [kind |-> kind, k |-> k, u |-> u, v |-> v, c |-> c]

\* one arc per node limit, per entry of connections and per entry of targets
Arcs ==
    {Arc("in", i, inGate(i), i, maxIn[i + 1]) : i \in Centres(N)}
        \cup {Arc("out", i, i, outGate(i), maxOut[i + 1]) : i \in Centres(N)}
        \cup {Arc("channel", k, outGate(connections[k][1]),
                  inGate(connections[k][2]), connections[k][3]) :
                k \in 1..Len(connections)}
        \cup {Arc("target", k, targets[k], superSink, maxIn[targets[k] + 1]) :
                k \in 1..Len(targets)}

RECURSIVE SumCap(_)
SumCap(S) ==
    IF S = {} THEN 0
    ELSE LET x == CHOOSE y \in S : TRUE
         IN  x.c + SumCap(S \ {x})

CutCapacity(arcs, S) == SumCap({x \in arcs : x.u \in S /\ x.v \notin S})

\* the cuts that keep the origin on one side and the super-sink on the other
Cuts == {S \cup {origin} : S \in SUBSET ((0..superSink) \ {origin, superSink})}

MinCut ==
    LET arcs == Arcs
        capacities == {CutCapacity(arcs, S) : S \in Cuts}
    IN  CHOOSE c \in capacities : \A d \in capacities : c <= d

\* the edge lists of the graph, without the search state
EdgesOf(vs) == [i \in DOMAIN vs |-> vs[i].edges]

InitialGraph == Graph(Preprocess(connections, maxIn, maxOut, targets), 3 * N + 1)

\* no augmentation has happened yet
BeforeFirstRound == path = <<>>

\* the edges of a positive capacity lead from the origin to the super-sink in
\* the graph as built
RECURSIVE ReachedFrom(_)
ReachedFrom(S) ==
    LET more == {x.v : x \in {y \in Arcs : y.u \in S /\ y.c > 0}}
    IN  IF more \subseteq S THEN S ELSE ReachedFrom(S \cup more)

PositivePath == superSink \in ReachedFrom({origin})

\* the current capacity of the only edge from u to v
CapacityOf(u, v) ==
    LET es == vertices[u].edges
    IN  es[CHOOSE k \in 1..Len(es) : es[k].v = v].w

\* the flow on the k-th channel: its stated capacity minus the current capacity
\* of its own edge, the one Graph.__init__ appended for it to the edge list of
\* outGate(a) (after that list's first edge, the backward edge to a)
ChannelFlow(k) ==
    LET a == connections[k][1]
        nth == Cardinality({j \in 1..k : connections[j][1] = a})
    IN  connections[k][3] - vertices[outGate(a)].edges[1 + nth].w

RECURSIVE SumFlow(_)
SumFlow(K) ==
    IF K = {} THEN 0
    ELSE LET k == CHOOSE j \in K : TRUE
         IN  ChannelFlow(k) + SumFlow(K \ {k})

Arriving(i) == {k \in 1..Len(connections) : connections[k][2] = i}

Leaving(i) == {k \in 1..Len(connections) : connections[k][1] = i}

(***************************************************************************)
(* Claims.                                                                 *)
(***************************************************************************)

\* C1: whenever maxThroughput returns, the value it returns is the minimum
\* capacity of a cut between the origin and the super-sink of the transformed
\* graph.
MaxFlowMinCut == pc = "return" => flow = MinCut

\* C1 witness: a call returned a flow of 2 that took more than one round.
MaxFlowMinCutWitness ==
    pc = "return" /\ flow = 2 /\ smallest_value = 1 /\ flow = MinCut

\* C7: every channel carries a flow between 0 and its capacity, and the
\* channels arriving at (leaving) a node carry together at most its maxIn
\* (maxOut).
CapacityRespect ==
    /\ \A k \in 1..Len(connections) :
          ChannelFlow(k) >= 0 /\ ChannelFlow(k) <= connections[k][3]
    /\ \A i \in Centres(N) :
          /\ SumFlow(Arriving(i)) <= maxIn[i + 1]
          /\ SumFlow(Leaving(i)) <= maxOut[i + 1]

\* C7 witness: a round ended with flow on one of two parallel channels.
CapacityRespectWitness ==
    /\ pc = "while"
    /\ \E j, k \in 1..Len(connections) :
          /\ j < k
          /\ connections[j][1] = connections[k][1]
          /\ connections[j][2] = connections[k][2]
          /\ ChannelFlow(j) > 0

\* C9: when no path of positive capacities leads from the origin to the
\* super-sink in the graph as built, the call is at its first search or has
\* returned, the flow is 0 and every edge has its initial capacity.
NoPathReturnsZero ==
    ~PositivePath =>
        /\ pc \in {"while", "return"}
        /\ pc = "while" => vertices = InitialGraph
        /\ flow = 0
        /\ EdgesOf(vertices) = EdgesOf(InitialGraph)

\* C9 witness: a call with a positive channel and no positive path returned.
NoPathReturnsZeroWitness ==
    /\ ~PositivePath
    /\ pc = "return"
    /\ \E k \in 1..Len(connections) : connections[k][3] > 0

\* the number of edges (u, v, w) in the graph
EdgeCount(u, v, w) ==
    IF u \in DOMAIN vertices
    THEN Cardinality({k \in 1..Len(vertices[u].edges) :
                        vertices[u].edges[k] = Edge(u, v, w)})
    ELSE 0

\* the number of edges (u, v, w) the transformation is to build: the arcs, and
\* one edge of capacity 0 against every arc
ArcCount(arcs, u, v, w) ==
    Cardinality({x \in arcs : x.u = u /\ x.v = v /\ x.c = w})
        + (IF w = 0 THEN Cardinality({x \in arcs : x.u = v /\ x.v = u}) ELSE 0)

\* C10: the graph has the 3N+1 vertices 0..3N, its edges are the arcs of the
\* transformation and one edge of capacity 0 against each (as many edges
\* (u, v, w) in the graph as the transformation is to build, for every edge of
\* either), and the flow runs from the origin's raw id to 3N.
TransformationBuilt ==
    BeforeFirstRound =>
        LET arcs == Arcs
        IN  /\ DOMAIN vertices = 0..(3 * N)
            /\ \A i \in DOMAIN vertices : vertices[i].id = i
            /\ \A x \in arcs :
                  /\ EdgeCount(x.u, x.v, x.c) = ArcCount(arcs, x.u, x.v, x.c)
                  /\ EdgeCount(x.v, x.u, 0) = ArcCount(arcs, x.v, x.u, 0)
            /\ \A u \in DOMAIN vertices : \A k \in 1..Len(vertices[u].edges) :
                  LET e == vertices[u].edges[k]
                  IN  /\ e.u = u
                      /\ EdgeCount(u, e.v, e.w) = ArcCount(arcs, u, e.v, e.w)
            /\ source = origin
            /\ sink = 3 * N

\* C10 witness: a graph built for two centres, two channels and two targets.
TransformationBuiltWitness ==
    /\ BeforeFirstRound
    /\ pc = "while"
    /\ N = 2
    /\ Len(connections) = 2
    /\ Len(targets) = 2
    /\ targets[1] # targets[2]

\* the flow through node i at its inbound gate and at its outbound gate
InboundFlow(i) == maxIn[i + 1] - CapacityOf(inGate(i), i)

OutboundFlow(i) == maxOut[i + 1] - CapacityOf(i, outGate(i))

Intermediate ==
    {i \in Centres(N) : i # origin /\ \A k \in 1..Len(targets) : targets[k] # i}

\* C8: at every node that is neither the origin nor a target, the flow on
\* inGate(i)->in(i) equals the flow on in(i)->outGate(i), and they are at most
\* maxIn[i] and maxOut[i].
Conservation ==
    \A i \in Intermediate :
        /\ InboundFlow(i) = OutboundFlow(i)
        /\ InboundFlow(i) <= maxIn[i + 1]
        /\ OutboundFlow(i) <= maxOut[i + 1]

\* C8 witness: a call returned with flow through an intermediate node.
ConservationWitness ==
    /\ pc = "return"
    /\ \E i \in Intermediate : InboundFlow(i) > 0 /\ OutboundFlow(i) > 0

\* a call that has just been entered
AtEntry == pc = "while" /\ path = <<>>

\* C2: every call of maxThroughput returns.
Terminates == <>(pc = "return")

\* connections with the channels at positions j < k replaced, at position j,
\* by one channel of their summed capacity
Merged(cs, j, k) ==
    [i \in 1..(Len(cs) - 1) |->
        IF i = j THEN <<cs[j][1], cs[j][2], cs[j][3] + cs[k][3]>>
        ELSE IF i < k THEN cs[i] ELSE cs[i + 1]]

\* C3: two channels with the same departure and arrival count as one channel
\* of their summed capacity: maxThroughput returns the same for both inputs.
ParallelChannelsAdd ==
    AtEntry =>
        \A j, k \in 1..Len(connections) :
            (j < k /\ connections[j][1] = connections[k][1]
                   /\ connections[j][2] = connections[k][2])
            => maxThroughput(connections, maxIn, maxOut, origin, targets)
                = maxThroughput(Merged(connections, j, k), maxIn, maxOut, origin,
                                targets)

\* C4: fordFulkerson(s, s) returns 0 at once: the loop body is never entered
\* and the flow stays 0.
SourceIsSinkReturnsZero ==
    source = sink => (pc \in {"while", "return"} /\ flow = 0)

Orders(n) ==
    {f \in [1..n -> 1..n] : \A i, j \in 1..n : f[i] = f[j] => i = j}

Permuted(seq, f) == [i \in 1..Len(seq) |-> seq[f[i]]]

\* C5: maxThroughput returns the same for every order of connections and of
\* targets.
OrderIndependent ==
    AtEntry =>
        \A f \in Orders(Len(connections)), g \in Orders(Len(targets)) :
            maxThroughput(Permuted(connections, f), maxIn, maxOut, origin,
                          Permuted(targets, g))
                = maxThroughput(connections, maxIn, maxOut, origin, targets)

\* a second call returns, and returns at least what the first returned
NotBelow(first, second) ==
    first # <<>> => (second # <<>> /\ second[1] >= first[1])

\* C6: with one capacity raised (a channel's, a maxIn[i] or a maxOut[i]),
\* maxThroughput returns at least what it returned before.
Monotone ==
    AtEntry =>
        LET first == maxThroughput(connections, maxIn, maxOut, origin, targets)
        IN  \A d \in 1..MaxCap :
                /\ \A k \in 1..Len(connections) :
                      NotBelow(first,
                          maxThroughput([connections EXCEPT ![k][3] = @ + d],
                                        maxIn, maxOut, origin, targets))
                /\ \A i \in 1..N :
                      /\ NotBelow(first,
                            maxThroughput(connections, [maxIn EXCEPT ![i] = @ + d],
                                          maxOut, origin, targets))
                      /\ NotBelow(first,
                            maxThroughput(connections, maxIn,
                                          [maxOut EXCEPT ![i] = @ + d], origin,
                                          targets))

(***************************************************************************)
(* Claims about one round of the loop of fordFulkerson.                    *)
(***************************************************************************)
\* a step that runs the loop body: the unprimed graph is the one the search
\* left, path' and smallest_value' are the round's path and bottleneck
Round == pc = "body" /\ pc' = "while"

RECURSIVE SumW(_, _, _)
SumW(es, k, v) ==
    IF k > Len(es) THEN 0
    ELSE (IF es[k].v = v THEN es[k].w ELSE 0) + SumW(es, k + 1, v)

\* the capacity from u to v in the graph vs, over every edge from u to v
TotalCapacity(vs, u, v) == SumW(vs[u].edges, 1, v)

\* C11: in every round, for every consecutive pair (u, v) of the path, the
\* last pair included, the capacity from u to v falls by the bottleneck and
\* the capacity from v to u rises by it, and the flow rises by it.
AugmentsEveryPair ==
    [][Round =>
        LET p == path'
            b == smallest_value'
        IN  /\ flow' = flow + b
            /\ \A i \in 1..(Len(p) - 1) :
                  LET u == p[i]
                      v == p[i + 1]
                  IN  /\ TotalCapacity(vertices', u, v)
                            = TotalCapacity(vertices, u, v) - b
                      /\ TotalCapacity(vertices', v, u)
                            = TotalCapacity(vertices, v, u) + b]_vars

\* the edge Graph.__init__ built for the k-th entry of conns: the edges of one
\* departure keep the order they have in conns
BuiltEdge(vs, conns, k) ==
    LET u == conns[k].u
    IN  vs[u].edges[Cardinality({j \in 1..k : conns[j].u = u})]

\* C12: every edge has a capacity of at least 0, and every forward edge and
\* the backward edge appended with it have capacities that add up to the
\* forward edge's original capacity.
ResidualInvariant ==
    LET conns == Preprocess(connections, maxIn, maxOut, targets)
    IN  /\ \A u \in DOMAIN vertices : \A k \in 1..Len(vertices[u].edges) :
              vertices[u].edges[k].w >= 0
        /\ \A j \in 1..(Len(conns) \div 2) :
              BuiltEdge(vertices, conns, 2 * j - 1).w
                + BuiltEdge(vertices, conns, 2 * j).w = conns[2 * j - 1].w

\* C12 witness: after a round, an edge carries flow and has capacity left.
ResidualInvariantWitness ==
    LET conns == Preprocess(connections, maxIn, maxOut, targets)
    IN  /\ pc = "while"
        /\ flow > 0
        /\ \E j \in 1..(Len(conns) \div 2) :
              /\ BuiltEdge(vertices, conns, 2 * j - 1).w > 0
              /\ BuiltEdge(vertices, conns, 2 * j).w > 0

\* the capacity of the edge the search crossed from u to v: line 231 takes
\* the first edge of u that arrives at v with a capacity above 0
CrossedCapacity(vs, u, v) ==
    LET es == vs[u].edges
        crossed(k) == es[k].v = v /\ es[k].w > 0
    IN  es[CHOOSE k \in 1..Len(es) :
                crossed(k) /\ \A j \in 1..(k - 1) : ~crossed(j)].w

MinOf(S) == CHOOSE x \in S : \A y \in S : x <= y

\* C13: in every round the bottleneck is the smallest capacity among the edges
\* the search crossed along the path, so it is at least 1 and the flow grows.
BottleneckOfCrossedEdges ==
    [][Round =>
        LET p == path'
            b == smallest_value'
        IN  /\ b = MinOf({CrossedCapacity(vertices, p[i], p[i + 1]) :
                            i \in 1..(Len(p) - 1)})
            /\ b >= 1
            /\ flow' > flow]_vars

\* C14: after every round's updates, some edge between two consecutive
\* vertices of the round's path has capacity 0.
SaturatesAnEdge ==
    [][Round =>
        LET p == path'
        IN  \E i \in 1..(Len(p) - 1) :
                \E k \in 1..Len(vertices'[p[i]].edges) :
                    LET edge == vertices'[p[i]].edges[k]
                    IN  edge.v = p[i + 1] /\ edge.w = 0]_vars

\* the vertices one edge of positive capacity away from a vertex of S
PositiveSuccessors(vs, S) ==
    UNION {{vs[u].edges[k].v :
                k \in {j \in 1..Len(vs[u].edges) : vs[u].edges[j].w > 0}} :
            u \in S}

\* the number of edges of a shortest path of positive capacities to t, from
\* the vertices that are reached with d edges or fewer; None if there is none
RECURSIVE ShortestFrom(_, _, _, _)
ShortestFrom(vs, reached, t, d) ==
    IF t \in reached THEN d
    ELSE LET more == reached \cup PositiveSuccessors(vs, reached)
         IN  IF more = reached THEN None
             ELSE ShortestFrom(vs, more, t, d + 1)

ShortestLength(vs, s, t) == ShortestFrom(vs, {s}, t, 0)

\* C15: the path of every round has as many edges as a shortest path of
\* positive capacities from the source to the sink in the graph the round
\* started on (the search changes no capacity).
ShortestAugmentingPath ==
    [][Round => Len(path') - 1 = ShortestLength(vertices, source, sink)]_vars

\* C15 witness: a round took the edge from the source to the sink where a
\* path of two edges of positive capacities led there as well (a path of two
\* vertices has no pair that line 321 updates, so the graph is the one the
\* round started on).
ShortestAugmentingPathWitness ==
    /\ pc = "while"
    /\ Len(path) = 2
    /\ source # sink
    /\ \E a \in DOMAIN vertices \ {source, sink} :
          /\ TotalCapacity(vertices, source, a) > 0
          /\ TotalCapacity(vertices, a, sink) > 0

\* C16: whenever a search is about to start, the first or a later one, every
\* vertex has discovered = False, visited = False and previous = None.
SearchStartsClean ==
    pc = "while" =>
        \A i \in DOMAIN vertices :
            /\ vertices[i].discovered = FALSE
            /\ vertices[i].visited = FALSE
            /\ vertices[i].previous = None

\* C16 witness: a search is about to start after a round whose path ran over
\* five vertices, each but the first with a predecessor.
SearchStartsCleanWitness ==
    /\ pc = "while"
    /\ Len(path) = 5
    /\ flow > 0
    /\ \A i \in DOMAIN vertices : vertices[i].previous = None

\* the vertices and, list by list and position by position, the end points of
\* their edges
Topology(vs) ==
    [i \in DOMAIN vs |->
        [id |-> vs[i].id,
         edges |-> [k \in 1..Len(vs[i].edges) |->
                        <<vs[i].edges[k].u, vs[i].edges[k].v>>]]]

\* C17: no step of fordFulkerson, search or round, adds or removes a vertex
\* or an edge, reorders an edge list or changes the end points of an edge.
TopologyFixed == [][Topology(vertices') = Topology(vertices)]_vars

\* C17 witness: a call returned after rounds that changed capacities.
TopologyFixedWitness ==
    /\ pc = "return"
    /\ flow = 2
    /\ EdgesOf(vertices) # EdgesOf(InitialGraph)
    /\ Topology(vertices) = Topology(InitialGraph)

\* a step that runs hasAugmentingPath: the primed graph is the one the search
\* leaves
Search == pc = "while" /\ pc' \in {"body", "return"}

\* C18: no search puts a vertex into its queue twice, the source included,
\* and every search leaves the source without a predecessor.
SearchEnqueuesOnce ==
    [][Search =>
        LET log == Enqueued(vertices, source, sink)
        IN  /\ \A i, j \in 1..Len(log) : log[i] = log[j] => i = j
            /\ vertices'[source].previous = None]_vars

RECURSIVE SumUsed(_, _, _)
SumUsed(built, now, k) ==
    IF k > Len(built) THEN 0
    ELSE (built[k].w - now[k].w) + SumUsed(built, now, k + 1)

\* the net flow leaving vertex u: over every edge of its list, the capacity
\* the edge was built with minus the capacity it has now
NetFlowLeaving(u) == SumUsed(InitialGraph[u].edges, vertices[u].edges, 1)

OriginIsNoTarget == \A k \in 1..Len(targets) : targets[k] # origin

\* C19: when the origin is not among the targets, the flow is the net flow
\* leaving the origin vertex, after every round and when the call returns
\* (and at the entry, where both are 0).
FlowLeavesOrigin == OriginIsNoTarget => flow = NetFlowLeaving(origin)

\* C19 witness: a call with the origin outside the targets returned a flow of
\* 2 pushed in more than one round.
FlowLeavesOriginWitness ==
    /\ OriginIsNoTarget
    /\ pc = "return"
    /\ flow = 2
    /\ smallest_value = 1
    /\ NetFlowLeaving(origin) = 2

====
